---- MODULE Spec2Model ----
(***************************************************************************)
(* Model of the thonlabs-services environment-data service, the e-mail     *)
(* service and the cascade rules of the relational schema.                 *)
(*                                                                         *)
(* Strings are sequences of one-character strings, so that the key         *)
(* normalisation (prepareString, lodash camelCase) is computed character   *)
(* by character.                                                           *)
(***************************************************************************)
EXTENDS Integers, Sequences, FiniteSets, TLC

(***************************************************************************)
(* Characters                                                              *)
(***************************************************************************)
LowerChars == <<"a","b","c","d","e","f","g","h","i","j","k","l","m",
                "n","o","p","q","r","s","t","u","v","w","x","y","z">>

UpperChars == <<"A","B","C","D","E","F","G","H","I","J","K","L","M",
                "N","O","P","Q","R","S","T","U","V","W","X","Y","Z">>

LowerSet == {LowerChars[i] : i \in DOMAIN LowerChars}

UpperSet == {UpperChars[i] : i \in DOMAIN UpperChars}

IsLower(c) == c \in LowerSet

IsUpper(c) == c \in UpperSet

IsLetter(c) == IsLower(c) \/ IsUpper(c)

IsDigit(c) == c \in {"0","1","2","3","4","5","6","7","8","9"}

\* String.prototype.toLowerCase, one character at a time
lowerOf ==
  [c \in UpperSet |->
     LowerChars[CHOOSE i \in DOMAIN UpperChars : UpperChars[i] = c]]

toLowerChar(c) == IF IsUpper(c) THEN lowerOf[c] ELSE c

\* String.prototype.toUpperCase, one character at a time
upperOf ==
  [c \in LowerSet |->
     UpperChars[CHOOSE i \in DOMAIN LowerChars : LowerChars[i] = c]]

toUpperChar(c) == IF IsLower(c) THEN upperOf[c] ELSE c

toLowerCase(s) == [i \in DOMAIN s |-> toLowerChar(s[i])]

\* white space removed by String.prototype.trim
IsWhite(c) == c = " "

\* characters the sanitising pass of prepareString does not let through
IsUnsafe(c) == c \in {"<", ">"}

(***************************************************************************)
(* prepareString: trim, then sanitise                                      *)
(***************************************************************************)
RECURSIVE trimStart(_)
trimStart(s) ==
  IF s = <<>> THEN <<>>
  ELSE IF IsWhite(Head(s)) THEN trimStart(Tail(s))
  ELSE s

RECURSIVE trimEnd(_)
trimEnd(s) ==
  IF s = <<>> THEN <<>>
  ELSE IF IsWhite(s[Len(s)]) THEN trimEnd(SubSeq(s, 1, Len(s) - 1))
  ELSE s

trim(s) == trimEnd(trimStart(s))

sanitize(s) == SelectSeq(s, LAMBDA c : ~IsUnsafe(c))

prepareString(s) == sanitize(trim(s))

(***************************************************************************)
(* lodash camelCase                                                        *)
(*   words(): a word is  Upper? Lower+  or a run of Upper; a run of Upper  *)
(*   followed by a Lower gives its last letter to the next word; a run of  *)
(*   digits is a word of its own (ordinals such as "1st" are outside the   *)
(*   keys used here); every other character separates words.               *)
(***************************************************************************)
\* length of the maximal run of characters satisfying the class, from i
RECURSIVE runLower(_, _)
runLower(s, i) ==
  IF i <= Len(s) /\ IsLower(s[i]) THEN 1 + runLower(s, i + 1) ELSE 0

RECURSIVE runUpper(_, _)
runUpper(s, i) ==
  IF i <= Len(s) /\ IsUpper(s[i]) THEN 1 + runUpper(s, i + 1) ELSE 0

RECURSIVE runDigit(_, _)
runDigit(s, i) ==
  IF i <= Len(s) /\ IsDigit(s[i]) THEN 1 + runDigit(s, i + 1) ELSE 0

\* length of the word that starts at the letter or digit s[i]
wordLen(s, i) ==
  IF IsDigit(s[i]) THEN runDigit(s, i)
  ELSE IF IsLower(s[i]) THEN runLower(s, i)
  ELSE LET u == runUpper(s, i)
           l == runLower(s, i + u)
       IN  IF l = 0 THEN u
           ELSE IF u = 1 THEN 1 + l
           ELSE u - 1

RECURSIVE wordsFrom(_, _)
wordsFrom(s, i) ==
  IF i > Len(s) THEN <<>>
  ELSE IF ~(IsLetter(s[i]) \/ IsDigit(s[i])) THEN wordsFrom(s, i + 1)
  ELSE LET n == wordLen(s, i)
       IN  <<SubSeq(s, i, i + n - 1)>> \o wordsFrom(s, i + n)

words(s) == wordsFrom(s, 1)

\* lodash capitalize: upperFirst(toLower(word))
capitalize(w) ==
  IF w = <<>> THEN <<>>
  ELSE <<toUpperChar(toLowerChar(w[1]))>> \o toLowerCase(Tail(w))

RECURSIVE camelJoin(_, _)
camelJoin(ws, index) ==
  IF index > Len(ws) THEN <<>>
  ELSE (IF index = 1 THEN toLowerCase(ws[index]) ELSE capitalize(ws[index]))
         \o camelJoin(ws, index + 1)

camelCaseOfWords(s) == camelJoin(words(s), 1)

(***************************************************************************)
(* Inputs of the environment-data operations                               *)
(***************************************************************************)
Envs == {"e1", "e2"}

\* JSON values; "false" is the falsy one
Values == {"false", "true"}

Truthy(v) == v \notin {"false", "undefined"}

Undefined == "undefined"

KeyCamel == <<"a","B">>

KeySpaced == <<" ","a"," ","b"," ">>

KeyMarkup == <<"a","<","b">>

KeyPlain == <<"a","b">>

KeyEnableSignUp == <<"e","n","a","b","l","e","S","i","g","n","U","p">>

KeyEnableSignUpB2BOnly ==
  <<"e","n","a","b","l","e","S","i","g","n","U","p","B","2","B","O","n","l","y">>

\* keys a caller may supply
KeyInputs == {KeyCamel, KeySpaced, KeyMarkup, KeyPlain, KeyEnableSignUp}

\* camelCase, computed once for the strings the handlers pass to it
knownStrings ==
  LET prepared == {prepareString(k) : k \in KeyInputs}
      folded == {camelCaseOfWords(k) : k \in KeyInputs \cup prepared}
  IN  KeyInputs \cup prepared \cup folded \cup {<<>>}

camelCaseTable == [s \in knownStrings |-> camelCaseOfWords(s)]

camelCase(s) ==
  IF s \in knownStrings THEN camelCaseTable[s] ELSE camelCaseOfWords(s)

\* the ids the public GET / route asks for
PublicKeys == {KeyEnableSignUp, KeyEnableSignUpB2BOnly}

\* the ids lists a caller of GET /app may send
QueryIds == SUBSET {KeyPlain, KeyEnableSignUp}

\* concurrent callers
Procs == {"p1", "p2"}

\* the one key the racing callers use
RaceKeys == {KeyCamel}

VARIABLES
  projects,         \* table projects: rows [id, appName, userOwnerId]
  environments,     \* table environments: rows [id, name, appURL, projectId]
  users,            \* table users: rows [id, fullName, email, environmentId]
  projectConfigs,   \* table projects_configs_on_environments:
                    \*   rows [environmentId, projectId]
  emailTemplates,   \* table emails_templates: rows [id, type, enabled,
                    \*   fromName, fromEmail, subject, preview, content,
                    \*   environmentId]
  emailDomains,     \* table emails_domains: rows [id, environmentId]
  tokenStorage,     \* table tokens_storage: rows [token, environmentId]
  environmentData,  \* table environment_data: rows [id, environmentId, value]
  pc,               \* per caller: position inside the running handler
  call,             \* per caller: arguments and locals of the running handler
  last,             \* the call that finished last, with its outcome, as
                    \* long as no other call has begun since
  mail,             \* EmailService: position and locals of the running call
  outbox,           \* the calls made to resend.emails.send by that call
  logs,             \* the lines that call wrote to the logger
  removed           \* what the last statement on the schema removed

\* the tables other than environment_data
tables ==
  <<projects, environments, users, projectConfigs, emailTemplates,
    emailDomains, tokenStorage>>

dataVars == <<environmentData, pc, call, last>>

mailVars == <<mail, outbox, logs>>

\* a column that is NULL, and the result of a lookup that finds no row
Null == [id |-> "null"]

\* nothing was deleted yet
NoRemoved ==
  [op |-> "none", projects |-> {}, environments |-> {}, users |-> {},
   childRows |-> 0]

(***************************************************************************)
(* The store calls made on databaseService.environmentData                 *)
(***************************************************************************)
\* findUnique({where: {id, environmentId}}): the set holding the row, or {}
dbFindUnique(rows, id, environmentId) ==
  {r \in rows : r.id = id /\ r.environmentId = environmentId}

\* upsert({where: {id: whereId, environmentId}, create: {id: createId, ...},
\* update: {value}}): the primary key is id alone, so creating an id that a
\* row of another environment holds is rejected by the store, and so is a
\* row whose environmentId references no environment
dbUpsert(rows, whereId, environmentId, createId, value) ==
  LET found == dbFindUnique(rows, whereId, environmentId)
  IN  IF found # {}
        THEN [threw |-> FALSE,
              rows  |-> (rows \ found) \cup
                          {[r EXCEPT !.value = value] : r \in found},
              id    |-> whereId]
      ELSE IF \/ \E r \in rows : r.id = createId
              \/ \A e \in environments : e.id # environmentId
        THEN [threw |-> TRUE, rows |-> rows, id |-> createId]
      ELSE [threw |-> FALSE,
            rows  |-> rows \cup {[id |-> createId,
                                  environmentId |-> environmentId,
                                  value |-> value]},
            id    |-> createId]

\* update({where: {id, environmentId}, data: {value}}): throws when no row
dbUpdate(rows, id, environmentId, value) ==
  LET found == dbFindUnique(rows, id, environmentId)
  IN  IF found = {}
        THEN [threw |-> TRUE, rows |-> rows]
        ELSE [threw |-> FALSE,
              rows  |-> (rows \ found) \cup
                          {[r EXCEPT !.value = value] : r \in found}]

\* a delete that reports success and leaves the row in place; C5 tells the
\* store's delete apart from it
dbDeleteKeepsRow(rows, id, environmentId) ==
  LET found == dbFindUnique(rows, id, environmentId)
  IN  IF found = {}
        THEN [threw |-> TRUE, rows |-> rows]
        ELSE [threw |-> FALSE, rows |-> rows]

\* delete({where: {id, environmentId}}): throws when no row
dbDelete(rows, id, environmentId) ==
  LET found == dbFindUnique(rows, id, environmentId)
  IN  IF found = {}
        THEN [threw |-> TRUE, rows |-> rows]
        ELSE [threw |-> FALSE, rows |-> rows \ found]

\* findMany({where: {environmentId}})
dbFindMany(rows, environmentId) ==
  {r \in rows : r.environmentId = environmentId}

(***************************************************************************)
(* EnvironmentDataService, as functions of the table                       *)
(***************************************************************************)
\* get(environmentId, id): DataReturn with the value, or NotFound
get(rows, environmentId, id) ==
  LET found == dbFindUnique(rows, camelCase(id), environmentId)
  IN  IF found = {}
        THEN [status |-> "NotFound", data |-> Undefined]
        ELSE [status |-> "ok", data |-> (CHOOSE r \in found : TRUE).value]

\* upsert(environmentId, payload): one store call; a store error propagates
upsert(rows, environmentId, payloadId, value) ==
  LET id == camelCase(prepareString(payloadId))
      w  == dbUpsert(rows, camelCase(id), environmentId, id, value)
  IN  [status |-> IF w.threw THEN "throw" ELSE "ok",
       data   |-> IF w.threw THEN Undefined ELSE value,
       id     |-> w.id,
       rows   |-> w.rows]

\* fetch(environmentId): every row of the environment, as id -> value
fetch(rows, environmentId, keys) ==
  LET found == dbFindMany(rows, environmentId)
  IN  [id \in {r.id : r \in found} |->
         (CHOOSE r \in found : r.id = id).value]

\* {...a, ...b}
spread(a, b) ==
  [k \in DOMAIN a \cup DOMAIN b |-> IF k \in DOMAIN b THEN b[k] ELSE a[k]]

\* EnvironmentService.getData: the legacy columns of the environment
getData(environmentId) ==
  [k \in {<<"i","d">>} |-> environmentId]

(***************************************************************************)
(* Handlers.  A handler that awaits twice is two actions; the table may    *)
(* change between them.                                                    *)
(***************************************************************************)
NoCall ==
  [env |-> "none", key |-> <<>>, id |-> <<>>, value |-> Undefined,
   exists |-> Undefined, overlap |-> FALSE, follows |-> <<>>,
   absent |-> FALSE]

\* op, arguments (env, key or keys, value), outcome (status, data or map,
\* http); in follows, the call that finished before it when that call had
\* the same environment and key; in overlap, whether a controller upsert
\* ran while another one for the same environment and key was running; in
\* absent, whether update or delete began with no row stored for its key
\* (follows and absent are taken when the handler reads the table);
\* in wrote, whether the step that finished the call changed the table
NoLast ==
  [op |-> "none", env |-> "none", key |-> <<>>, keys |-> {},
   value |-> Undefined, status |-> "none", data |-> Undefined,
   map |-> <<>>, http |-> 0, follows |-> <<>>, overlap |-> FALSE,
   absent |-> FALSE, wrote |-> FALSE]

\* the canonical form of a key: what upsert stores a row under
canonical(key) == camelCase(prepareString(key))

Follows(env, key) ==
  IF last.env = env /\ last.key = key /\ last.op \in {"upsert", "delete"}
    THEN <<last.op, last.status, last.value>>
    ELSE <<>>

\* no row is stored for the key, under either form the service derives
Absent(env, key) ==
  \A r \in environmentData :
    r.environmentId = env => r.id \notin {camelCase(key), canonical(key)}

\* caller p's handler returns (or throws): record the outcome
Finish(p, r) ==
  /\ last' = [r EXCEPT !.wrote = environmentData' # environmentData]
  /\ pc' = [pc EXCEPT ![p] = "idle"]
  /\ call' = [call EXCEPT ![p] = NoCall]

\* EnvironmentDataService.get
Get(p, env, key) ==
  /\ pc[p] = "idle"
  /\ UNCHANGED <<tables, mailVars, removed>>
  /\ UNCHANGED environmentData
  /\ LET r == get(environmentData, env, key)
     IN  Finish(p, [NoLast EXCEPT !.op = "get", !.env = env, !.key = key,
                                  !.status = r.status, !.data = r.data,
                                  !.follows = Follows(env, key)])

\* EnvironmentDataService.upsert
Upsert(p, env, key, value) ==
  /\ pc[p] = "idle"
  /\ UNCHANGED <<tables, mailVars, removed>>
  /\ LET r == upsert(environmentData, env, key, value)
     IN  /\ environmentData' = r.rows
         /\ Finish(p, [NoLast EXCEPT !.op = "upsert", !.env = env,
                                     !.key = key, !.value = value,
                                     !.status = r.status, !.data = r.data])

\* EnvironmentDataController.fetch: GET /
FetchPublic(p, env) ==
  /\ pc[p] = "idle"
  /\ UNCHANGED <<tables, mailVars, removed>>
  /\ UNCHANGED environmentData
  /\ LET envLegacyData == getData(env)
         envData == fetch(environmentData, env, PublicKeys)
     IN  Finish(p, [NoLast EXCEPT !.op = "fetch", !.env = env,
                                  !.keys = PublicKeys, !.status = "ok",
                                  !.map = spread(envLegacyData, envData)])

\* EnvironmentDataController.fetchAppData: GET /app?ids=...
FetchAppData(p, env, ids) ==
  /\ pc[p] = "idle"
  /\ UNCHANGED <<tables, mailVars, removed>>
  /\ UNCHANGED environmentData
  /\ LET envLegacyData == getData(env)
         envData == fetch(environmentData, env, ids)
     IN  Finish(p, [NoLast EXCEPT !.op = "fetchApp", !.env = env,
                                  !.keys = ids, !.status = "ok",
                                  !.map = spread(envLegacyData, envData)])

\* EnvironmentDataController.upsert, up to the first await: the existence
\* probe reads payload.key (absent from a payload that carries only id)
ControllerUpsertProbe(p, env, key, hasKey, value) ==
  /\ pc[p] = "idle"
  /\ UNCHANGED <<tables, mailVars, removed>>
  /\ LET probed == get(environmentData, env, IF hasKey THEN key ELSE <<>>)
         same(q) == /\ q # p
                    /\ pc[q] = "controllerUpsert"
                    /\ call[q].env = env
                    /\ canonical(call[q].key) = canonical(key)
     IN  call' = [q \in Procs |->
                   IF q = p
                     THEN [NoCall EXCEPT !.env = env, !.key = key,
                                         !.value = value,
                                         !.exists = probed.data,
                                         !.overlap = \E o \in Procs : same(o)]
                   ELSE IF same(q) THEN [call[q] EXCEPT !.overlap = TRUE]
                   ELSE call[q]]
  /\ pc' = [pc EXCEPT ![p] = "controllerUpsert"]
  /\ last' = NoLast
  /\ UNCHANGED environmentData

\* EnvironmentDataController.upsert, the service call and the response
ControllerUpsertWrite(p) ==
  /\ pc[p] = "controllerUpsert"
  /\ UNCHANGED <<tables, mailVars, removed>>
  /\ LET c == call[p]
         r == upsert(environmentData, c.env, c.key, c.value)
     IN  /\ environmentData' = r.rows
         /\ Finish(p, [NoLast EXCEPT !.op = "controllerUpsert",
                                     !.env = c.env, !.key = c.key,
                                     !.value = c.value,
                                     !.status = r.status, !.data = r.data,
                                     !.http = IF r.status = "throw" THEN 500
                                              ELSE IF Truthy(c.exists) THEN 200
                                              ELSE 201,
                                     !.overlap = c.overlap])

\* EnvironmentDataService.update, up to the store write
UpdateCheck(p, env, key, value) ==
  /\ pc[p] = "idle"
  /\ UNCHANGED <<tables, mailVars, removed>>
  /\ UNCHANGED environmentData
  /\ LET id == camelCase(prepareString(key))
         exists == get(environmentData, env, id)
     IN  IF ~Truthy(exists.data)
           THEN Finish(p, [NoLast EXCEPT !.op = "update", !.env = env,
                                         !.key = key, !.value = value,
                                         !.status = "NotFound",
                                         !.follows = Follows(env, key),
                                         !.absent = Absent(env, key)])
           ELSE /\ call' = [call EXCEPT ![p] =
                              [NoCall EXCEPT !.env = env, !.key = key,
                                             !.id = id, !.value = value,
                                             !.exists = exists.data,
                                             !.follows = Follows(env, key),
                                             !.absent = Absent(env, key)]]
                /\ pc' = [pc EXCEPT ![p] = "update"]
                /\ last' = NoLast

\* EnvironmentDataService.update, the store write
UpdateWrite(p) ==
  /\ pc[p] = "update"
  /\ UNCHANGED <<tables, mailVars, removed>>
  /\ LET c == call[p]
         w == dbUpdate(environmentData, camelCase(c.id), c.env, c.value)
     IN  /\ environmentData' = w.rows
         /\ Finish(p, [NoLast EXCEPT !.op = "update", !.env = c.env,
                                     !.key = c.key, !.value = c.value,
                                     !.status = IF w.threw THEN "throw"
                                                ELSE "ok",
                                     !.data = IF w.threw THEN Undefined
                                              ELSE c.value,
                                     !.follows = c.follows,
                                     !.absent = c.absent])

\* EnvironmentDataService.delete, up to the store write
DeleteCheck(p, env, key) ==
  /\ pc[p] = "idle"
  /\ UNCHANGED <<tables, mailVars, removed>>
  /\ UNCHANGED environmentData
  /\ LET environmentDataRow == get(environmentData, env, key)
     IN  IF environmentDataRow.status # "ok"
           THEN Finish(p, [NoLast EXCEPT !.op = "delete", !.env = env,
                                         !.key = key,
                                         !.status = environmentDataRow.status,
                                         !.follows = Follows(env, key),
                                         !.absent = Absent(env, key)])
           ELSE /\ call' = [call EXCEPT ![p] =
                              [NoCall EXCEPT !.env = env, !.key = key,
                                             !.id = camelCase(key),
                                             !.exists = environmentDataRow.data,
                                             !.follows = Follows(env, key),
                                             !.absent = Absent(env, key)]]
                /\ pc' = [pc EXCEPT ![p] = "delete"]
                /\ last' = NoLast

\* EnvironmentDataService.delete, the store write
DeleteWrite(p) ==
  /\ pc[p] = "delete"
  /\ UNCHANGED <<tables, mailVars, removed>>
  /\ LET c == call[p]
         w == dbDelete(environmentData, camelCase(c.key), c.env)
     IN  /\ environmentData' = w.rows
         /\ Finish(p, [NoLast EXCEPT !.op = "delete", !.env = c.env,
                                     !.key = c.key,
                                     !.status = IF w.threw THEN "throw"
                                                ELSE "ok",
                                     !.follows = c.follows,
                                     !.absent = c.absent])

(***************************************************************************)
(* EmailService                                                            *)
(***************************************************************************)
\* JavaScript objects are functions from property names to values
Access(obj, prop) == IF prop \in DOMAIN obj THEN obj[prop] ELSE Undefined

\* {...obj, [prop]: value}
With(obj, prop, value) ==
  [k \in DOMAIN obj \cup {prop} |-> IF k = prop THEN value ELSE obj[k]]

\* template texts: a literal, an interpolation <%= a %> or <%= a.b %>, or a
\* text the evaluator cannot compile
TextLit == <<"lit", "Hello">>

TextBad == <<"bad">>

TextToken == <<"var", "token">>

TextPreview == <<"var", "preview">>

TextUserFirstName == <<"var", "user", "firstName">>

TextAuthURL == <<"var", "environment", "authURL">>

\* ejs.render(text, data): the rendered string, or the error it throws (a
\* name that is not a property of data, or a property read on null)
ejsRender(text, data) ==
  IF text[1] = "lit" THEN [threw |-> FALSE, out |-> text[2]]
  ELSE IF text[1] = "bad" THEN [threw |-> TRUE, out |-> Undefined]
  ELSE IF text[2] \notin DOMAIN data THEN [threw |-> TRUE, out |-> Undefined]
  ELSE IF Len(text) = 2 THEN [threw |-> FALSE, out |-> data[text[2]]]
  ELSE IF data[text[2]] = Null THEN [threw |-> TRUE, out |-> Undefined]
  ELSE LET v == Access(data[text[2]], text[3])
       IN  [threw |-> FALSE, out |-> IF v = Undefined THEN "" ELSE v]

\* getFirstName(fullName): the first word of the name
getFirstName(fullName) == IF fullName = <<>> THEN "" ELSE fullName[1]

\* EmailTemplateService.getByType: the enabled template of the type in the
\* environment, or null
getByType(emailTemplateType, environmentId) ==
  LET found == {t \in emailTemplates : /\ t.type = emailTemplateType
                                       /\ t.environmentId = environmentId
                                       /\ t.enabled}
  IN  IF found = {} THEN Null ELSE CHOOSE t \in found : TRUE

\* EmailService.getEnvironmentData: the selected columns, or null
getEnvironmentData(environmentId) ==
  LET found == {e \in environments : e.id = environmentId}
  IN  IF found = {} THEN Null
      ELSE LET e == CHOOSE x \in found : TRUE
               p == CHOOSE x \in projects : x.id = e.projectId
           IN  [id |-> e.id, name |-> e.name, appURL |-> e.appURL,
                project |-> [id |-> p.id, appName |-> p.appName]]

\* EmailService.getUserData: the selected columns, or null
getUserData(userId) ==
  LET found == {u \in users : u.id = userId}
  IN  IF found = {} THEN Null
      ELSE LET u == CHOOSE x \in found : TRUE
           IN  [id |-> u.id, fullName |-> u.fullName, email |-> u.email]

\* internalEmails[from]: the two own entries; a name inherited from
\* Object.prototype yields a value that is not an entry (its from is
\* undefined); any other name yields undefined
ObjectPrototypeKeys == {"constructor", "toString"}

internalEmail(from) ==
  IF from = "support"
    THEN [truthy |-> TRUE, from |-> "ThonLabs Support Team <support@thonlabs.io>"]
  ELSE IF from = "founder"
    THEN [truthy |-> TRUE, from |-> "Gus from ThonLabs <gus@thonlabs.io>"]
  ELSE IF from \in ObjectPrototypeKeys
    THEN [truthy |-> TRUE, from |-> Undefined]
  ELSE [truthy |-> FALSE, from |-> Undefined]

\* inputs of send and sendInternal
EnvironmentIdInputs == {"e1", "e9", Undefined}

UserIdInputs == {Undefined, "u1", "u9"}

TemplateTypeInputs == {"Welcome", "Invite"}

NoData == <<>>

DataToken == [token |-> "tok"]

DataFull ==
  [token |-> "tok",
   environment |-> [authURL |-> "auth.io", appURLEncoded |-> "app%2Eio"],
   user |-> [firstName |-> "Grace"]]

\* hasData: the caller passed an object (send then writes into that object)
DataInputs ==
  {[hasData |-> FALSE, data |-> NoData],
   [hasData |-> TRUE, data |-> DataToken],
   [hasData |-> TRUE, data |-> DataFull]}

FromInputs == {"support", "founder", "sales", "constructor"}

ScheduledAtInputs == {Undefined, "2030-01-01"}

NoMail ==
  [pc |-> "idle", op |-> "none", environmentId |-> Undefined,
   userId |-> Undefined, emailTemplateType |-> Undefined,
   scheduledAt |-> Undefined, from |-> Undefined, hasData |-> FALSE,
   data |-> NoData, emailData |-> NoData, emailTemplate |-> Null,
   fromName |-> Undefined, subject |-> Undefined, html |-> Undefined,
   order |-> <<>>, rejected |-> FALSE, result |-> "none",
   input |-> NoData, contentData |-> NoData]

\* EmailService.send, up to the template lookup
Send(environmentId, userId, emailTemplateType, input, scheduledAt) ==
  /\ mail.pc = "idle"
  /\ UNCHANGED <<tables, dataVars, removed>>
  /\ mail' = [NoMail EXCEPT
       !.pc = "environment", !.op = "send",
       !.environmentId = environmentId, !.userId = userId,
       !.emailTemplateType = emailTemplateType,
       !.scheduledAt = scheduledAt,
       !.hasData = input.hasData, !.data = input.data,
       !.input = input.data, !.emailData = input.data,
       !.emailTemplate = getByType(emailTemplateType, environmentId)]
  /\ outbox' = <<>>
  /\ logs' = <<>>

\* EmailService.send: if (environmentId) { ... }; emailData is the caller's
\* data object when one was passed (emailData = data || {}), so the
\* assignment writes into that object
SendEnvironment ==
  /\ mail.pc = "environment"
  /\ UNCHANGED <<tables, dataVars, removed>>
  /\ mail' = IF mail.environmentId # Undefined
               THEN LET emailData ==
                          With(mail.emailData, "environment",
                               getEnvironmentData(mail.environmentId))
                    IN  [mail EXCEPT
                          !.pc = "user",
                          !.emailData = emailData,
                          !.data = IF mail.hasData THEN emailData ELSE @,
                          !.order = Append(mail.order, "environment")]
               ELSE [mail EXCEPT !.pc = "user"]
  /\ UNCHANGED <<outbox, logs>>

\* EmailService.send: if (userId) { ... }; reading user.fullName of a user
\* that was not found throws out of send
SendUser ==
  /\ mail.pc = "user"
  /\ UNCHANGED <<tables, dataVars, removed>>
  /\ mail' = IF mail.userId = Undefined
               THEN [mail EXCEPT !.pc = "render"]
             ELSE LET user == getUserData(mail.userId)
                  IN  IF user = Null
                        THEN [mail EXCEPT !.pc = "done", !.result = "threw"]
                        ELSE LET emailData ==
                                   With(mail.emailData, "user",
                                        With(user, "firstName",
                                             getFirstName(user.fullName)))
                             IN  [mail EXCEPT
                                   !.pc = "render",
                                   !.emailData = emailData,
                                   !.data = IF mail.hasData THEN emailData
                                            ELSE @,
                                   !.order = Append(mail.order, "user")]
  /\ UNCHANGED <<outbox, logs>>

\* the first try block with the content evaluated ahead of the preview,
\* against the context as it is before the preview is added; C11 tells the
\* code's order apart from it
renderTemplateContentFirst(emailTemplate, emailData) ==
  LET none == [fromName |-> Undefined, subject |-> Undefined,
               html |-> Undefined, threw |-> TRUE, order |-> <<>>,
               contentData |-> NoData]
  IN  IF emailTemplate = Null THEN none
      ELSE
        LET f == ejsRender(emailTemplate.fromName, emailData)
            s == ejsRender(emailTemplate.subject, emailData)
            c == ejsRender(emailTemplate.content, emailData)
            p == ejsRender(emailTemplate.preview, emailData)
        IN  IF f.threw THEN [none EXCEPT !.order = <<"fromName">>]
            ELSE IF s.threw
              THEN [none EXCEPT !.fromName = f.out,
                                !.order = <<"fromName", "subject">>]
            ELSE IF c.threw
              THEN [none EXCEPT !.fromName = f.out, !.subject = s.out,
                                !.order = <<"fromName", "subject", "content">>,
                                !.contentData = emailData]
            ELSE [fromName |-> f.out, subject |-> s.out,
                  html |-> IF p.threw THEN Undefined ELSE c.out,
                  threw |-> p.threw,
                  order |-> <<"fromName", "subject", "content", "preview">>,
                  contentData |-> emailData]

\* the first try block of send: fromName, subject, then preview, then
\* content with the rendered preview in its data; the first error leaves
\* the remaining results undefined. contentData is the context the content
\* is evaluated against
renderTemplate(emailTemplate, emailData) ==
  LET none == [fromName |-> Undefined, subject |-> Undefined,
               html |-> Undefined, threw |-> TRUE, order |-> <<>>,
               contentData |-> NoData]
  IN  IF emailTemplate = Null THEN none
      ELSE
        LET f == ejsRender(emailTemplate.fromName, emailData)
            s == ejsRender(emailTemplate.subject, emailData)
            p == ejsRender(emailTemplate.preview, emailData)
            c == ejsRender(emailTemplate.content,
                           With(emailData, "preview", p.out))
        IN  IF f.threw THEN [none EXCEPT !.order = <<"fromName">>]
            ELSE IF s.threw
              THEN [none EXCEPT !.fromName = f.out,
                                !.order = <<"fromName", "subject">>]
            ELSE IF p.threw
              THEN [none EXCEPT !.fromName = f.out, !.subject = s.out,
                                !.order = <<"fromName", "subject", "preview">>]
            ELSE [fromName |-> f.out, subject |-> s.out,
                  html |-> IF c.threw THEN Undefined ELSE c.out,
                  threw |-> c.threw,
                  order |-> <<"fromName", "subject", "preview", "content">>,
                  contentData |-> With(emailData, "preview", p.out)]

\* EmailService.send: the two try blocks, up to the await of the transport
SendRender ==
  /\ mail.pc = "render"
  /\ UNCHANGED <<tables, dataVars, removed>>
  /\ LET r == renderTemplate(mail.emailTemplate, mail.emailData)
         rendered == [mail EXCEPT !.fromName = r.fromName,
                                  !.subject = r.subject, !.html = r.html,
                                  !.order = mail.order \o r.order,
                                  !.contentData = r.contentData]
         renderLog == IF r.threw THEN <<"renderError">> ELSE <<>>
     IN  IF mail.emailTemplate = Null
           THEN \* reading emailTemplate.fromEmail throws inside the try
                /\ mail' = [rendered EXCEPT !.pc = "done",
                                            !.result = "returned"]
                /\ logs' = logs \o renderLog \o <<"sendError">>
                /\ UNCHANGED outbox
           ELSE /\ mail' = [rendered EXCEPT !.pc = "transport"]
                /\ logs' = logs \o renderLog
                /\ outbox' = Append(outbox,
                     [from |-> <<r.fromName, mail.emailTemplate.fromEmail>>,
                      subject |-> r.subject, html |-> r.html,
                      scheduledAt |-> mail.scheduledAt])

\* EmailService.sendInternal, up to the await of the transport; rendered
\* tells whether render(content) returned
SendInternal(from, rendered, scheduledAt) ==
  /\ mail.pc = "idle"
  /\ UNCHANGED <<tables, dataVars, removed>>
  /\ LET entry == internalEmail(from)
         started == [NoMail EXCEPT !.op = "sendInternal", !.from = from,
                                   !.scheduledAt = scheduledAt]
     IN  IF ~entry.truthy
           THEN /\ mail' = [started EXCEPT !.pc = "done",
                                           !.result = "returned"]
                /\ logs' = <<"invalidType">>
                /\ outbox' = <<>>
         ELSE IF ~rendered
           THEN /\ mail' = [started EXCEPT !.pc = "done",
                                           !.result = "returned"]
                /\ logs' = <<"sendError">>
                /\ outbox' = <<>>
         ELSE /\ mail' = [started EXCEPT !.pc = "transport",
                                         !.html = "markup"]
              /\ logs' = <<>>
              /\ outbox' = <<[from |-> <<entry.from>>, subject |-> "Subject",
                              html |-> "markup",
                              scheduledAt |-> scheduledAt]>>

\* resend.emails.send settles: accepted, or it rejects and the catch block
\* logs the error
TransportSettles(accepted) ==
  /\ mail.pc = "transport"
  /\ UNCHANGED <<tables, dataVars, removed>>
  /\ mail' = [mail EXCEPT !.pc = "done", !.result = "returned",
                          !.rejected = ~accepted]
  /\ logs' = Append(logs,
       IF ~accepted THEN "sendError"
       ELSE IF mail.op = "sendInternal" THEN "sentInternal"
       ELSE IF mail.scheduledAt # Undefined THEN "scheduled"
       ELSE "sent")
  /\ UNCHANGED outbox

\* the template rows an environment may hold
TemplateRows ==
  {[id |-> "t1", type |-> "Welcome", enabled |-> enabled,
    fromName |-> fromName, fromEmail |-> "no-reply@app.io",
    subject |-> subject, preview |-> preview, content |-> content,
    environmentId |-> "e1"] :
     enabled \in BOOLEAN,
     fromName \in {TextLit, TextBad},
     subject \in {TextLit, TextBad},
     preview \in {TextLit, TextBad, TextToken},
     content \in {TextLit, TextBad, TextPreview, TextAuthURL,
                  TextUserFirstName}}

InitMail ==
  /\ users = {[id |-> "u1", fullName |-> <<"Ada", "Lovelace">>,
               email |-> "ada@example.io", environmentId |-> "e1"],
              [id |-> "u0", fullName |-> <<"Gus", "Sales">>,
               email |-> "gus@example.io", environmentId |-> Null.id]}
  /\ projects = {[id |-> "p1", appName |-> "App", userOwnerId |-> "u0"]}
  /\ environments = {[id |-> "e1", name |-> "Production",
                      appURL |-> "app.io", projectId |-> "p1"]}
  /\ projectConfigs = {}
  /\ emailTemplates \in {{}} \cup {{t} : t \in TemplateRows}
  /\ emailDomains = {}
  /\ tokenStorage = {}
  /\ environmentData = {}
  /\ pc = [p \in Procs |-> "idle"]
  /\ call = [p \in Procs |-> NoCall]
  /\ last = NoLast
  /\ mail = NoMail
  /\ outbox = <<>>
  /\ logs = <<>>
  /\ removed = NoRemoved

NextMail ==
  \/ \E environmentId \in EnvironmentIdInputs, userId \in UserIdInputs,
        emailTemplateType \in TemplateTypeInputs, input \in DataInputs,
        scheduledAt \in ScheduledAtInputs :
       Send(environmentId, userId, emailTemplateType, input, scheduledAt)
  \/ SendEnvironment
  \/ SendUser
  \/ SendRender
  \/ \E from \in FromInputs, rendered \in BOOLEAN,
        scheduledAt \in ScheduledAtInputs :
       SendInternal(from, rendered, scheduledAt)
  \/ \E accepted \in BOOLEAN : TransportSettles(accepted)

(***************************************************************************)
(* The relational schema: inserts under the primary and foreign keys, and  *)
(* deletes under the onDelete rules of the relations                       *)
(***************************************************************************)
ProjectIds == {"p1", "p2"}

EnvironmentIds == {"e1", "e2"}

\* u0 is the platform user that owns the first projects
TenantUserIds == {"u1"}

\* the most rows the child tables hold together
MaxChildRows == 2

childRows ==
  Cardinality(projectConfigs) + Cardinality(emailTemplates)
    + Cardinality(emailDomains) + Cardinality(tokenStorage)
    + Cardinality(environmentData)

idsOf(rows) == {r.id : r \in rows}

\* relation User.environment, onDelete: Cascade
cascadeUsers(rows, deletedEnvironments) ==
  {r \in rows : r.environmentId \notin deletedEnvironments}

\* relation Project.userOwner, onDelete: Cascade
cascadeProjects(rows, deletedUsers) ==
  {r \in rows : r.userOwnerId \notin deletedUsers}

\* relation Environment.project, onDelete: Cascade
cascadeEnvironments(rows, deletedProjects) ==
  {r \in rows : r.projectId \notin deletedProjects}

\* relations ProjectConfigOnEnvironment.environment and .project,
\* onDelete: Cascade
cascadeProjectConfigs(rows, deletedEnvironments, deletedProjects) ==
  {r \in rows : /\ r.environmentId \notin deletedEnvironments
                /\ r.projectId \notin deletedProjects}

\* a relation that leaves the referencing rows in place; C10 tells
\* onDelete: Cascade apart from it
keepEmailTemplates(rows, deletedEnvironments) ==
  rows

\* relation EmailTemplate.environment, onDelete: Cascade
cascadeEmailTemplates(rows, deletedEnvironments) ==
  {r \in rows : r.environmentId \notin deletedEnvironments}

\* relation EmailDomain.environment, onDelete: Cascade
cascadeEmailDomains(rows, deletedEnvironments) ==
  {r \in rows : r.environmentId \notin deletedEnvironments}

\* relation TokenStorage.environment, onDelete: Cascade
cascadeTokenStorage(rows, deletedEnvironments) ==
  {r \in rows : r.environmentId \notin deletedEnvironments}

\* relation EnvironmentData.environment, onDelete: Cascade
cascadeEnvironmentData(rows, deletedEnvironments) ==
  {r \in rows : r.environmentId \notin deletedEnvironments}

\* the projects, environments and users a delete removes: the deleted rows
\* and, transitively, the rows that reference them
RECURSIVE closure(_, _, _)
closure(deletedProjects, deletedEnvironments, deletedUsers) ==
  LET es == deletedEnvironments \cup
              (idsOf(environments)
                 \ idsOf(cascadeEnvironments(environments, deletedProjects)))
      us == deletedUsers \cup
              (idsOf(users) \ idsOf(cascadeUsers(users, es)))
      ps == deletedProjects \cup
              (idsOf(projects) \ idsOf(cascadeProjects(projects, us)))
  IN  IF <<ps, es, us>> = <<deletedProjects, deletedEnvironments, deletedUsers>>
        THEN [projects |-> ps, environments |-> es, users |-> us]
        ELSE closure(ps, es, us)

\* DELETE of the given projects and environments
Delete(op, deletedProjects, deletedEnvironments) ==
  LET d == closure(deletedProjects, deletedEnvironments, {})
  IN  /\ projects' = {r \in projects : r.id \notin d.projects}
      /\ environments' = {r \in environments : r.id \notin d.environments}
      /\ users' = {r \in users : r.id \notin d.users}
      /\ projectConfigs' =
           cascadeProjectConfigs(projectConfigs, d.environments, d.projects)
      /\ emailTemplates' = cascadeEmailTemplates(emailTemplates, d.environments)
      /\ emailDomains' = cascadeEmailDomains(emailDomains, d.environments)
      /\ tokenStorage' = cascadeTokenStorage(tokenStorage, d.environments)
      /\ environmentData' =
           cascadeEnvironmentData(environmentData, d.environments)
      /\ removed' = [op |-> op, projects |-> d.projects,
                     environments |-> d.environments, users |-> d.users,
                     childRows |-> childRows - childRows']
      /\ UNCHANGED <<pc, call, last, mailVars>>

DeleteProject(id) ==
  /\ id \in idsOf(projects)
  /\ Delete("deleteProject", {id}, {})

DeleteEnvironment(id) ==
  /\ id \in idsOf(environments)
  /\ Delete("deleteEnvironment", {}, {id})

\* INSERT INTO users
CreateUser(id, environmentId) ==
  /\ id \notin idsOf(users)
  /\ environmentId \in idsOf(environments)
  /\ users' = users \cup {[id |-> id, fullName |-> <<"Ada", "Lovelace">>,
                           email |-> "ada@example.io",
                           environmentId |-> environmentId]}
  /\ UNCHANGED <<projects, environments, projectConfigs, emailTemplates,
                 emailDomains, tokenStorage, dataVars, mailVars>>
  /\ removed' = NoRemoved

\* INSERT INTO projects
CreateProject(id, userOwnerId) ==
  /\ id \notin idsOf(projects)
  /\ userOwnerId \in idsOf(users)
  /\ projects' = projects \cup {[id |-> id, appName |-> "App",
                                 userOwnerId |-> userOwnerId]}
  /\ UNCHANGED <<users, environments, projectConfigs, emailTemplates,
                 emailDomains, tokenStorage, dataVars, mailVars>>
  /\ removed' = NoRemoved

\* INSERT INTO environments
CreateEnvironment(id, projectId) ==
  /\ id \notin idsOf(environments)
  /\ projectId \in idsOf(projects)
  /\ environments' = environments \cup
       {[id |-> id, name |-> "Production", appURL |-> "app.io",
         projectId |-> projectId]}
  /\ UNCHANGED <<users, projects, projectConfigs, emailTemplates,
                 emailDomains, tokenStorage, dataVars, mailVars>>
  /\ removed' = NoRemoved

\* INSERT INTO projects_configs_on_environments
CreateProjectConfig(environmentId, projectId) ==
  /\ childRows < MaxChildRows
  /\ \A r \in projectConfigs :
       ~(r.environmentId = environmentId /\ r.projectId = projectId)
  /\ environmentId \in idsOf(environments)
  /\ projectId \in idsOf(projects)
  /\ projectConfigs' = projectConfigs \cup
       {[environmentId |-> environmentId, projectId |-> projectId]}
  /\ UNCHANGED <<users, projects, environments, emailTemplates,
                 emailDomains, tokenStorage, dataVars, mailVars>>
  /\ removed' = NoRemoved

\* INSERT INTO emails_templates
CreateEmailTemplate(id, environmentId) ==
  /\ childRows < MaxChildRows
  /\ id \notin idsOf(emailTemplates)
  /\ environmentId \in idsOf(environments)
  /\ emailTemplates' = emailTemplates \cup
       {[id |-> id, type |-> "Welcome", enabled |-> TRUE,
         fromName |-> TextLit, fromEmail |-> "no-reply@app.io",
         subject |-> TextLit, preview |-> TextLit, content |-> TextLit,
         environmentId |-> environmentId]}
  /\ UNCHANGED <<users, projects, environments, projectConfigs,
                 emailDomains, tokenStorage, dataVars, mailVars>>
  /\ removed' = NoRemoved

\* INSERT INTO emails_domains
CreateEmailDomain(id, environmentId) ==
  /\ childRows < MaxChildRows
  /\ id \notin idsOf(emailDomains)
  /\ environmentId \in idsOf(environments)
  /\ emailDomains' = emailDomains \cup
       {[id |-> id, environmentId |-> environmentId]}
  /\ UNCHANGED <<users, projects, environments, projectConfigs,
                 emailTemplates, tokenStorage, dataVars, mailVars>>
  /\ removed' = NoRemoved

\* INSERT INTO tokens_storage; environmentId may be NULL
CreateToken(token, environmentId) ==
  /\ childRows < MaxChildRows
  /\ token \notin {r.token : r \in tokenStorage}
  /\ environmentId \in idsOf(environments) \cup {Null.id}
  /\ tokenStorage' = tokenStorage \cup
       {[token |-> token, environmentId |-> environmentId]}
  /\ UNCHANGED <<users, projects, environments, projectConfigs,
                 emailTemplates, emailDomains, dataVars, mailVars>>
  /\ removed' = NoRemoved

\* INSERT INTO environment_data
CreateEnvironmentData(id, environmentId, value) ==
  /\ childRows < MaxChildRows
  /\ id \notin idsOf(environmentData)
  /\ environmentId \in idsOf(environments)
  /\ environmentData' = environmentData \cup
       {[id |-> id, environmentId |-> environmentId, value |-> value]}
  /\ UNCHANGED <<tables, pc, call, last, mailVars>>
  /\ removed' = NoRemoved

InitSchema ==
  /\ users = {[id |-> "u0", fullName |-> <<"Gus", "Sales">>,
               email |-> "gus@example.io", environmentId |-> Null.id]}
  /\ projects = {}
  /\ environments = {}
  /\ projectConfigs = {}
  /\ emailTemplates = {}
  /\ emailDomains = {}
  /\ tokenStorage = {}
  /\ environmentData = {}
  /\ pc = [p \in Procs |-> "idle"]
  /\ call = [p \in Procs |-> NoCall]
  /\ last = NoLast
  /\ mail = NoMail
  /\ outbox = <<>>
  /\ logs = <<>>
  /\ removed = NoRemoved

NextSchema ==
  \/ \E id \in TenantUserIds, environmentId \in EnvironmentIds :
       CreateUser(id, environmentId)
  \/ \E id \in ProjectIds, userOwnerId \in TenantUserIds \cup {"u0"} :
       CreateProject(id, userOwnerId)
  \/ \E id \in EnvironmentIds, projectId \in ProjectIds :
       CreateEnvironment(id, projectId)
  \/ \E environmentId \in EnvironmentIds, projectId \in ProjectIds :
       CreateProjectConfig(environmentId, projectId)
  \/ \E environmentId \in EnvironmentIds :
       CreateEmailTemplate("t1", environmentId)
  \/ \E environmentId \in EnvironmentIds :
       CreateEmailDomain("d1", environmentId)
  \/ \E environmentId \in EnvironmentIds \cup {Null.id} :
       CreateToken("k1", environmentId)
  \/ \E environmentId \in EnvironmentIds :
       CreateEnvironmentData(KeyCamel, environmentId, "true")
  \/ \E id \in ProjectIds : DeleteProject(id)
  \/ \E id \in EnvironmentIds : DeleteEnvironment(id)

\* the rows the environment-data handlers run against: one owner, one
\* project, the two environments
InitTables ==
  /\ users = {[id |-> "u0", fullName |-> <<"Ada", "Lovelace">>,
               email |-> "ada@example.io", environmentId |-> Null.id]}
  /\ projects = {[id |-> "p1", appName |-> "App", userOwnerId |-> "u0"]}
  /\ environments = {[id |-> e, name |-> "Production", appURL |-> "app.io",
                      projectId |-> "p1"] : e \in Envs}
  /\ projectConfigs = {}
  /\ emailTemplates = {}
  /\ emailDomains = {}
  /\ tokenStorage = {}

InitData ==
  /\ InitTables
  /\ environmentData = {}
  /\ pc = [p \in Procs |-> "idle"]
  /\ call = [p \in Procs |-> NoCall]
  /\ last = NoLast
  /\ mail = NoMail
  /\ outbox = <<>>
  /\ logs = <<>>
  /\ removed = NoRemoved

\* the service and the read routes, one caller at a time, every key
NextData ==
  \E p \in {"p1"} :
    \/ \E env \in Envs, key \in KeyInputs : Get(p, env, key)
    \/ \E env \in Envs, key \in KeyInputs, value \in Values :
         Upsert(p, env, key, value)
    \/ \E env \in Envs : FetchPublic(p, env)
    \/ \E env \in Envs, ids \in QueryIds : FetchAppData(p, env, ids)
    \/ \E env \in Envs, key \in KeyInputs, value \in Values :
         UpdateCheck(p, env, key, value)
    \/ UpdateWrite(p)
    \/ \E env \in Envs, key \in KeyInputs : DeleteCheck(p, env, key)
    \/ DeleteWrite(p)

\* the service and the upsert route, concurrent callers, one key
NextRace ==
  \E p \in Procs :
    \/ \E env \in Envs, key \in RaceKeys : Get(p, env, key)
    \/ \E env \in Envs, key \in RaceKeys, value \in Values :
         Upsert(p, env, key, value)
    \/ \E env \in Envs, key \in RaceKeys, hasKey \in BOOLEAN,
          value \in Values : ControllerUpsertProbe(p, env, key, hasKey, value)
    \/ ControllerUpsertWrite(p)
    \/ \E env \in Envs, key \in RaceKeys, value \in Values :
         UpdateCheck(p, env, key, value)
    \/ UpdateWrite(p)
    \/ \E env \in Envs, key \in RaceKeys : DeleteCheck(p, env, key)
    \/ DeleteWrite(p)

vars == <<tables, dataVars, mailVars, removed>>

Init == InitData

Next == NextData

\* the environment-data service under one caller
Spec == Init /\ [][Next]_vars

\* the environment-data service under concurrent callers
SpecRace == InitData /\ [][NextRace]_vars

\* the e-mail service
SpecMail == InitMail /\ [][NextMail]_vars

\* the schema under inserts and deletes
SpecSchema == InitSchema /\ [][NextSchema]_vars

(***************************************************************************)
(* Claims about the environment-data service                               *)
(***************************************************************************)
\* the row of environment env stored under id, as a set
rowsOf(env, id) ==
  {r \in environmentData : r.environmentId = env /\ r.id = id}

\* C1: a get(E,K) that directly follows upsert(E,{id:K,value:V}) returns
\* exactly V, whether or not a row for K existed before the upsert.
ClaimC1 ==
  (last.op = "get" /\ last.follows # <<>> /\ last.follows[1] = "upsert")
    => (last.status = "ok" /\ last.data = last.follows[3])

\* C2: every operation addresses the row stored under the canonical form of
\* its key: a get or a delete called with K finds the row whose id is the
\* canonical form of K whenever that row exists in the environment, and no
\* environment holds two rows with the same id.
ClaimC2 ==
  /\ (last.op \in {"get", "delete"} /\ last.status = "NotFound")
       => rowsOf(last.env, canonical(last.key)) = {}
  /\ \A r1, r2 \in environmentData :
       (r1.environmentId = r2.environmentId /\ r1.id = r2.id) => r1 = r2

\* C3: key uniqueness is per environment: an upsert under one environment
\* succeeds and stores its row whatever rows the other environments hold.
ClaimC3 ==
  last.op = "upsert"
    => /\ last.status = "ok"
       /\ [id |-> canonical(last.key), environmentId |-> last.env,
           value |-> last.value] \in environmentData

\* C4: the subset fetch returns the legacy fields plus exactly the rows of
\* the environment whose ids are among the requested keys.
ClaimC4 ==
  last.op \in {"fetch", "fetchApp"}
    => DOMAIN last.map =
         DOMAIN getData(last.env) \cup
           {r.id : r \in {x \in environmentData :
                            x.environmentId = last.env /\ x.id \in last.keys}}

ClaimC9 ==
  (last.op = "controllerUpsert" /\ last.overlap)
    => /\ last.status = "ok"
       /\ rowsOf(last.env, canonical(last.key)) =
            {[id |-> canonical(last.key), environmentId |-> last.env,
              value |-> last.value]}

\* C13: under every interleaving a delete or an update whose row is gone
\* ends with a NotFound result, never with an exception of the store call.
ClaimC13 ==
  last.op \in {"delete", "update"} => last.status \in {"ok", "NotFound"}

(***************************************************************************)
(* Claims about the e-mail service                                         *)
(***************************************************************************)
\* C6: when the evaluation of fromName, subject, preview or content throws
\* inside send, send makes no call to the transport and returns without
\* throwing.
ClaimC6 ==
  (mail.op = "send" /\ mail.emailTemplate # Null
     /\ "renderError" \in {logs[i] : i \in DOMAIN logs})
    => (outbox = <<>> /\ (mail.pc = "done" => mail.result = "returned"))

\* C7: when the environment has no enabled template of the requested type,
\* send completes without throwing and makes no call to the transport.
ClaimC7 ==
  (mail.op = "send" /\ mail.pc = "done" /\ mail.emailTemplate = Null)
    => (mail.result = "returned" /\ outbox = <<>>)

\* C8: a rejection of the transport never reaches the caller of send or of
\* sendInternal, and sendInternal called with a from outside the enumerated
\* set logs an error, makes no call to the transport and returns normally.
ClaimC8 ==
  /\ (mail.pc = "done" /\ mail.rejected)
       => (mail.result = "returned" /\ "sendError" \in
             {logs[i] : i \in DOMAIN logs})
  /\ (mail.op = "sendInternal" /\ mail.from \notin {"support", "founder"})
       => (outbox = <<>> /\ (mail.pc = "done" =>
             (mail.result = "returned" /\ logs # <<>> /\
              \A i \in DOMAIN logs : logs[i] \in {"invalidType", "sendError"})))

\* C12: send called with a userId or an environmentId that references no
\* stored row returns normally to its caller.
ClaimC12 ==
  (/\ mail.op = "send"
   /\ mail.pc = "done"
   /\ \/ (mail.userId # Undefined /\ getUserData(mail.userId) = Null)
      \/ (mail.environmentId # Undefined
            /\ getEnvironmentData(mail.environmentId) = Null))
    => mail.result = "returned"

\* C14: at template evaluation the context still holds every field the
\* caller supplied in data, the fields nested under data.environment and
\* data.user that the store summary does not provide included, and send
\* leaves the caller's data object as it was.
ClaimC14 ==
  (mail.op = "send" /\ mail.pc \in {"render", "transport", "done"}
     /\ mail.result # "threw") =>
    /\ \A k \in DOMAIN mail.input : k \in DOMAIN mail.emailData
    /\ \A k \in DOMAIN mail.input \ {"environment", "user"} :
         mail.emailData[k] = mail.input[k]
    /\ \A k \in DOMAIN mail.input \cap {"environment", "user"} :
         LET summary == IF k = "environment"
                          THEN getEnvironmentData(mail.environmentId)
                          ELSE With(getUserData(mail.userId), "firstName", "")
             fetched == IF k = "environment"
                          THEN mail.environmentId # Undefined
                          ELSE mail.userId # Undefined
             kept == IF fetched THEN DOMAIN mail.input[k] \ DOMAIN summary
                     ELSE DOMAIN mail.input[k]
         IN  \A f \in kept :
               /\ f \in DOMAIN mail.emailData[k]
               /\ mail.emailData[k][f] = mail.input[k][f]
    /\ mail.data = mail.input

\* C11: in every execution of send the environment and user fetches come
\* before the first template evaluation, the preview is evaluated before
\* the content, and the context the content is evaluated against carries
\* under preview the evaluated preview string.
ClaimC11 ==
  mail.op = "send" =>
    LET fetches == {"environment", "user"}
        texts == {"fromName", "subject", "preview", "content"}
        evaluated == {mail.order[i] : i \in DOMAIN mail.order}
    IN  /\ \A i, j \in DOMAIN mail.order :
             /\ (mail.order[i] \in fetches /\ mail.order[j] \in texts)
                  => i < j
             /\ (mail.order[i] = "preview" /\ mail.order[j] = "content")
                  => i < j
        /\ (evaluated \cap texts # {}) =>
             /\ mail.environmentId # Undefined => "environment" \in evaluated
             /\ mail.userId # Undefined => "user" \in evaluated
        /\ "content" \in evaluated =>
             /\ "preview" \in evaluated
             /\ "preview" \in DOMAIN mail.contentData
             /\ mail.contentData["preview"] =
                  ejsRender(mail.emailTemplate.preview, mail.emailData).out

\* a send that fetched the environment and the user and whose content
\* interpolates the preview, itself an interpolation of the caller's token
WitnessC11 ==
  /\ mail.op = "send"
  /\ mail.order = <<"environment", "user", "fromName", "subject", "preview",
                    "content">>
  /\ mail.emailTemplate # Null
  /\ mail.emailTemplate.preview = TextToken
  /\ mail.emailTemplate.content = TextPreview
  /\ mail.html = "tok"

(***************************************************************************)
(* Claims about the schema                                                 *)
(***************************************************************************)
\* C10: no User, ProjectConfigOnEnvironment, EmailTemplate, EmailDomain,
\* environment-scoped TokenStorage or EnvironmentData row references an
\* Environment that does not exist, no Environment references a Project
\* that does not exist, and after a delete no row of those tables carries
\* the id of an environment the delete removed.
ClaimC10 ==
  LET live == idsOf(environments)
      children == {r.environmentId : r \in projectConfigs} \cup
                  {r.environmentId : r \in emailTemplates} \cup
                  {r.environmentId : r \in emailDomains} \cup
                  {r.environmentId : r \in environmentData} \cup
                  ({r.environmentId : r \in users} \ {Null.id}) \cup
                  ({r.environmentId : r \in tokenStorage} \ {Null.id})
  IN  /\ children \subseteq live
      /\ \A e \in environments : e.projectId \in idsOf(projects)
      /\ \A r \in projectConfigs : r.projectId \in idsOf(projects)
      /\ removed.op # "none" =>
           /\ live \cap removed.environments = {}
           /\ children \cap removed.environments = {}

\* a project was deleted, and with it an environment, a user of that
\* environment, the project that user owned, its environment, and child rows
WitnessC10 ==
  /\ removed.op = "deleteProject"
  /\ Cardinality(removed.projects) = 2
  /\ Cardinality(removed.environments) = 2
  /\ removed.users # {}
  /\ removed.childRows = MaxChildRows

====
